---------------------------- MODULE Spec2Model ----------------------------
(***************************************************************************)
(* Model of the Minesweeper engine of src/logic.py: the Difficulty it is   *)
(* built from, bomb sampling, grid generation, reveal (with its            *)
(* breadth-first flood fill) and toggleFlag (with its win check).          *)
(*                                                                         *)
(* A position is a pair <<row, col>>, 0-indexed as in the source.  The     *)
(* grid is a function from positions to Tile records.  Python's list       *)
(* indexing (negative indices count from the end, anything else raises     *)
(* IndexError) is modelled by PyIndex.                                     *)
(***************************************************************************)
EXTENDS Integers, Sequences, FiniteSets, TLC

VARIABLES difficulty, state, bombs, flags, grid, ret, ncalls

vars == <<difficulty, state, bombs, flags, grid, ret, ncalls>>

(***************************************************************************)
(* Bounds of the model.                                                    *)
(***************************************************************************)
\* a board has at most MaxCells tiles (rows * cols <= MaxCells)
MaxCells == 6
\* the requested bomb count ranges over -1 .. MaxBombs
MaxBombs == 2
\* the caller makes at most MaxCalls calls on one engine
MaxCalls == 3

(***************************************************************************)
(* Difficulty (src/difficulty.py) and the inputs of the constructor.       *)
(***************************************************************************)
Difficulty(rows, cols, nbombs) == [rows |-> rows, cols |-> cols, bombs |-> nbombs]

DifficultyInputs ==
    { Difficulty(r, c, b) : <<r, c, b>> \in
        { t \in (1..MaxCells) \X (1..MaxCells) \X (-1..MaxBombs) :
            t[1] * t[2] <= MaxCells } }

\* range(n)
Range(n) == 0 .. (n - 1)

\* product(range(rows), range(cols))
Product(rows, cols) == Range(rows) \X Range(cols)

\* every coordinate of the board of the current difficulty
Positions == Product(difficulty.rows, difficulty.cols)

(***************************************************************************)
(* Results of a call: what it returned, or the exception it raised.        *)
(***************************************************************************)
Returned(op, tiles, flagged) ==
    [op |-> op, exc |-> "None", tiles |-> tiles, flagged |-> flagged]

Raised(op, exc) ==
    [op |-> op, exc |-> exc, tiles |-> <<>>, flagged |-> FALSE]

(***************************************************************************)
(* Tile and State.                                                         *)
(***************************************************************************)
Tile(row, col) ==
    [row |-> row, col |-> col, bombsInNeighbor |-> 0,
     isBomb |-> FALSE, isFlagged |-> FALSE, isRevealed |-> FALSE]

ONGOING == "ONGOING"
WIN == "WIN"
LOSE == "LOSE"

(***************************************************************************)
(* random.sample(population, k): raises ValueError unless                  *)
(* 0 <= k <= len(population), else returns k distinct elements.            *)
(***************************************************************************)
SampleRaises(population, k) == k < 0 \/ k > Cardinality(population)

Sample(population, k) == { s \in SUBSET population : Cardinality(s) = k }

\* _generateBombs: the bomb sets the constructor can draw
GenerateBombs(d) == Sample(Product(d.rows, d.cols), d.bombs)

(***************************************************************************)
(* Python list indexing: l[i] for a list of length n.  The result is the   *)
(* index actually read, or -1 when IndexError is raised.                   *)
(***************************************************************************)
PyIndex(i, n) ==
    IF i >= 0 /\ i < n THEN i
    ELSE IF i < 0 /\ i >= -n THEN i + n
    ELSE -1

\* self._grid[row][col] raises IndexError
IndexRaises(d, row, col) ==
    PyIndex(row, d.rows) = -1 \/ PyIndex(col, d.cols) = -1

\* the position of the tile self._grid[row][col]
TileAt(d, row, col) == <<PyIndex(row, d.rows), PyIndex(col, d.cols)>>

(***************************************************************************)
(* _getNeighborsPosition: the in-bounds neighbours of (row, col), in the   *)
(* order of product((row-1, row, row+1), (col-1, col, col+1)).             *)
(***************************************************************************)
NeighborCandidates(row, col) ==
    << <<row - 1, col - 1>>, <<row - 1, col>>, <<row - 1, col + 1>>,
       <<row,     col - 1>>, <<row,     col>>, <<row,     col + 1>>,
       <<row + 1, col - 1>>, <<row + 1, col>>, <<row + 1, col + 1>> >>

NeighborYielded4(d, row, col, n) ==
    /\ ~(row = n[1] /\ col = n[2])
    /\ (row = n[1] \/ col = n[2])
    /\ (n[1] < d.rows /\ n[1] >= 0) /\ (n[2] < d.cols /\ n[2] >= 0)

NeighborYielded(d, row, col, n) ==
    /\ ~(row = n[1] /\ col = n[2])
    /\ (n[1] < d.rows /\ n[1] >= 0) /\ (n[2] < d.cols /\ n[2] >= 0)

GetNeighborsPosition(d, row, col) ==
    LET Yield(n) == NeighborYielded(d, row, col, n)
    IN  SelectSeq(NeighborCandidates(row, col), Yield)

(***************************************************************************)
(* _generateGrid: a grid of fresh tiles; then, for every bomb, isBomb is   *)
(* set and bombsInNeighbor of each of its neighbours is incremented.       *)
(***************************************************************************)
RECURSIVE IncrementNeighbors(_, _)
IncrementNeighbors(g, nbrs) ==
    IF nbrs = <<>> THEN g
    ELSE LET n == Head(nbrs)
         IN  IncrementNeighbors(
                 [g EXCEPT ![n].bombsInNeighbor = @ + 1], Tail(nbrs))

RECURSIVE PlaceBombs(_, _, _)
PlaceBombs(d, g, todo) ==
    IF todo = {} THEN g
    ELSE LET b == CHOOSE x \in todo : TRUE
             g1 == [g EXCEPT ![b].isBomb = TRUE]
             g2 == IncrementNeighbors(g1, GetNeighborsPosition(d, b[1], b[2]))
         IN  PlaceBombs(d, g2, todo \ {b})

GenerateGrid(d, bombSet) ==
    PlaceBombs(d, [p \in Product(d.rows, d.cols) |-> Tile(p[1], p[2])], bombSet)

(***************************************************************************)
(* The engine as one record, so that a handler is a function from the      *)
(* engine before the call to the engine after it and the call's result.    *)
(***************************************************************************)
Self ==
    [difficulty |-> difficulty, state |-> state, bombs |-> bombs,
     flags |-> flags, grid |-> grid]

Outcome(self, result) == [self |-> self, ret |-> result]

\* _checkIfAllBombsAreFlagged
CheckIfAllBombsAreFlagged(self) ==
    \A b \in self.bombs : self.grid[b].isFlagged

\* lines 89 and 106: the handlers run only while the game is going on
StateAllowsCallUnlessLost(self) == self.state # LOSE

StateAllowsCall(self) == self.state = ONGOING

(***************************************************************************)
(* toggleFlag                                                              *)
(***************************************************************************)
\* lines 98-102: the win check that follows the flip
WinCheckedNoFlagTest(self, tile) ==
    IF self.flags = self.difficulty.bombs /\ CheckIfAllBombsAreFlagged(self)
    THEN [self EXCEPT !.state = WIN]
    ELSE self

WinCheckedIgnoringCount(self, tile) ==
    IF tile.isFlagged /\ CheckIfAllBombsAreFlagged(self)
    THEN [self EXCEPT !.state = WIN]
    ELSE self

WinChecked(self, tile) ==
    IF tile.isFlagged
    THEN IF self.flags = self.difficulty.bombs /\ CheckIfAllBombsAreFlagged(self)
         THEN [self EXCEPT !.state = WIN]
         ELSE self
    ELSE self

\* lines 96-97: the flip of isFlagged and the update of the counter
FlagFlippedCountingUp(self, p) ==
    LET flagged == ~self.grid[p].isFlagged
    IN  [self EXCEPT !.grid[p].isFlagged = flagged, !.flags = @ + 1]

FlagFlippedResettingTile(self, p) ==
    LET flagged == ~self.grid[p].isFlagged
    IN  [self EXCEPT !.grid[p] = [Tile(p[1], p[2]) EXCEPT !.isFlagged = flagged],
                     !.flags = @ + (IF flagged THEN 1 ELSE -1)]

FlagFlipped(self, p) ==
    LET flagged == ~self.grid[p].isFlagged
    IN  [self EXCEPT !.grid[p].isFlagged = flagged,
                     !.flags = @ + (IF flagged THEN 1 ELSE -1)]

toggleFlag(self, row, col) ==
    IF ~StateAllowsCall(self)
    THEN Outcome(self, Raised("toggleFlag", "ValueError"))
    ELSE IF IndexRaises(self.difficulty, row, col)
    THEN Outcome(self, Raised("toggleFlag", "IndexError"))
    ELSE LET p == TileAt(self.difficulty, row, col)
         IN  IF self.grid[p].isRevealed
             THEN Outcome(self, Raised("toggleFlag", "ValueError"))
             ELSE LET s1 == FlagFlipped(self, p)
                      s2 == WinChecked(s1, s1.grid[p])
                  IN  Outcome(s2, Returned("toggleFlag", <<>>, s1.grid[p].isFlagged))

(***************************************************************************)
(* reveal                                                                  *)
(***************************************************************************)
\* line 128: any((ntile.isBomb, ntile.isFlagged, ntile.isRevealed))
SkipsNeighborIgnoringFlag(ntile) == ntile.isBomb \/ ntile.isRevealed

SkipsNeighbor(ntile) == ntile.isBomb \/ ntile.isFlagged \/ ntile.isRevealed

\* line 131: the neighbour is queued for expansion
ExpandsFromAny(ntile) == TRUE

ExpandsFromNever(ntile) == FALSE

ExpandsFrom(ntile) == ntile.bombsInNeighbor = 0

\* line 135: changed_tiles.append(ntile)
ChangedPrepended(changed, np) == <<np>> \o changed

ChangedAppended(changed, np) == Append(changed, np)

\* lines 126-135: the for loop over the neighbours of one dequeued position.
\* `pushed` records every position ever appended to the queue.
RECURSIVE VisitNeighbors(_, _, _, _, _)
VisitNeighbors(nbrs, g, queue, changed, pushed) ==
    IF nbrs = <<>>
    THEN [grid |-> g, queue |-> queue, changed |-> changed, pushed |-> pushed]
    ELSE LET ntile == g[Head(nbrs)]
             np == <<ntile.row, ntile.col>>
         IN  IF SkipsNeighbor(ntile)
             THEN VisitNeighbors(Tail(nbrs), g, queue, changed, pushed)
             ELSE VisitNeighbors(
                      Tail(nbrs),
                      [g EXCEPT ![Head(nbrs)].isRevealed = TRUE],
                      IF ExpandsFrom(ntile) THEN Append(queue, np) ELSE queue,
                      ChangedAppended(changed, np),
                      IF ExpandsFrom(ntile) THEN Append(pushed, np) ELSE pushed)

\* lines 124-135: the while loop over the queue.  `popped` counts the
\* entries taken from the queue, that is the iterations of the loop.
RECURSIVE FloodFill(_, _, _, _, _, _)
FloodFill(d, g, queue, changed, pushed, popped) ==
    IF queue = <<>>
    THEN [grid |-> g, changed |-> changed, pushed |-> pushed, popped |-> popped]
    ELSE LET p == Head(queue)
             v == VisitNeighbors(GetNeighborsPosition(d, p[1], p[2]),
                                 g, Tail(queue), changed, pushed)
         IN  FloodFill(d, v.grid, v.queue, v.changed, v.pushed, popped + 1)

\* line 117: tile.isRevealed = True
TargetNotMarked(self, p) == self.grid

TargetMarked(self, p) == [self.grid EXCEPT ![p].isRevealed = TRUE]

\* line 120: a numbered target ends the call
StopsAtTargetNever(tile) == FALSE

StopsAtTarget(tile) == tile.bombsInNeighbor # 0

\* lines 117-135: the target is marked and the flood runs from it
Flooded(self, p) ==
    LET start == <<self.grid[p].row, self.grid[p].col>>
    IN  FloodFill(self.difficulty, TargetMarked(self, p),
                  <<start>>, <<start>>, <<start>>, 0)

\* lines 110-112: the target is a bomb
LostOnBombRevealingIt(self, p) ==
    [self EXCEPT !.state = LOSE, !.grid[p].isRevealed = TRUE]

LostOnBomb(self, p) == [self EXCEPT !.state = LOSE]

\* line 114: the target is already revealed
AlreadyRevealedNever(tile) == FALSE

AlreadyRevealed(tile) == tile.isRevealed

reveal(self, row, col) ==
    IF ~StateAllowsCall(self)
    THEN Outcome(self, Raised("reveal", "ValueError"))
    ELSE IF IndexRaises(self.difficulty, row, col)
    THEN Outcome(self, Raised("reveal", "IndexError"))
    ELSE LET p == TileAt(self.difficulty, row, col)
             tile == self.grid[p]
         IN  IF tile.isBomb
             THEN Outcome(LostOnBomb(self, p), Returned("reveal", <<>>, FALSE))
             ELSE IF AlreadyRevealed(tile)
             THEN Outcome(self, Returned("reveal", <<>>, FALSE))
             ELSE IF StopsAtTarget(tile)
             THEN Outcome([self EXCEPT !.grid = TargetMarked(self, p)],
                          Returned("reveal", << <<tile.row, tile.col>> >>, FALSE))
             ELSE LET f == Flooded(self, p)
                  IN  Outcome([self EXCEPT !.grid = f.grid],
                              Returned("reveal", f.changed, FALSE))

(***************************************************************************)
(* The state machine.                                                      *)
(***************************************************************************)
\* Minesweeper.__init__ raised: no engine exists
ConstructionFailed == ret.op = "__init__" /\ ret.exc # "None"

EngineExists == ~ConstructionFailed

\* Minesweeper(difficulty)
Init ==
    /\ difficulty \in DifficultyInputs
    /\ state = ONGOING
    /\ flags = 0
    /\ ncalls = 0
    /\ IF SampleRaises(Product(difficulty.rows, difficulty.cols), difficulty.bombs)
       THEN /\ bombs = {}
            /\ grid = << >>
            /\ ret = Raised("__init__", "ValueError")
       ELSE /\ bombs \in GenerateBombs(difficulty)
            /\ grid = GenerateGrid(difficulty, bombs)
            /\ ret = Returned("__init__", <<>>, FALSE)

\* the coordinates a caller may pass: every position of the board and, for
\* each axis, the index -1 (read from the end), the first index below -n
\* and the first index above n - 1, the other coordinate being 0; and
\* (-1, -1)
CallInputs(d) ==
    Product(d.rows, d.cols)
        \cup { <<-1, -1>>, <<-1, 0>>, <<0, -1>>,
               <<-(d.rows + 1), 0>>, <<0, -(d.cols + 1)>>,
               <<d.rows, 0>>, <<0, d.cols>> }

Install(out) ==
    /\ ncalls < MaxCalls
    /\ ncalls' = ncalls + 1
    /\ state' = out.self.state
    /\ flags' = out.self.flags
    /\ grid' = out.self.grid
    /\ ret' = out.ret
    /\ UNCHANGED <<difficulty, bombs>>

Reveal(row, col) ==
    /\ EngineExists
    /\ Install(reveal(Self, row, col))

ToggleFlag(row, col) ==
    /\ EngineExists
    /\ Install(toggleFlag(Self, row, col))

Next ==
    \/ \E rc \in CallInputs(difficulty) : Reveal(rc[1], rc[2])
    \/ \E rc \in CallInputs(difficulty) : ToggleFlag(rc[1], rc[2])

Spec == Init /\ [][Next]_vars

(***************************************************************************)
(* Vocabulary of the properties.  None of it is used by the model above.   *)
(***************************************************************************)
\* the caller can make one more call on the engine
CanCall == EngineExists /\ ncalls < MaxCalls

\* every pair of coordinates the caller may pass
Inputs == CallInputs(difficulty)

InBounds(row, col) ==
    /\ row >= 0 /\ row < difficulty.rows
    /\ col >= 0 /\ col < difficulty.cols

\* 8-adjacency: Chebyshev distance 1
Abs(x) == IF x < 0 THEN -x ELSE x

Adjacent(p, q) == p # q /\ Abs(p[1] - q[1]) <= 1 /\ Abs(p[2] - q[2]) <= 1

Terminal == state \in {WIN, LOSE}

\* the board has at least one bomb and at least one tile without
ProperBoard ==
    /\ EngineExists
    /\ difficulty.bombs > 0
    /\ difficulty.bombs < difficulty.rows * difficulty.cols

\* the call failed and left the engine as it was
FailedUnchanged(out) == out.ret.exc # "None" /\ out.self = Self

\* the tiles whose isRevealed the call changed from false to true
NewlyRevealed(out) ==
    { p \in Positions : ~grid[p].isRevealed /\ out.self.grid[p].isRevealed }

(***************************************************************************)
(* C1.  WIN and LOSE are terminal: from a finished game every reveal and   *)
(* every toggleFlag call, on any coordinates, raises and leaves the state, *)
(* the flag counter and every tile unchanged, and no step changes the      *)
(* state, the counter or the grid again.                                   *)
(***************************************************************************)
C1_TerminalStates ==
    /\ [](CanCall /\ Terminal =>
            \A rc \in Inputs :
                /\ FailedUnchanged(reveal(Self, rc[1], rc[2]))
                /\ FailedUnchanged(toggleFlag(Self, rc[1], rc[2])))
    /\ [][Terminal => state' = state /\ flags' = flags /\ grid' = grid]_vars

\* a call was made on a won game, with a flag on the board, and it raised
C1_Witness ==
    /\ ProperBoard
    /\ state = WIN
    /\ ret.op = "reveal" /\ ret.exc = "ValueError"
    /\ flags > 0

(***************************************************************************)
(* C2.  In state ONGOING, reveal on a bomb tile (flagged or not) sets the  *)
(* state to LOSE, returns an empty sequence and changes no tile and not    *)
(* the flag counter: the bomb itself is not marked revealed.               *)
(***************************************************************************)
C2_RevealBombLoses ==
    CanCall /\ state = ONGOING =>
        \A p \in bombs :
            LET out == reveal(Self, p[1], p[2])
            IN  /\ out.self.state = LOSE
                /\ out.ret = Returned("reveal", <<>>, FALSE)
                /\ out.self.grid = grid
                /\ out.self.flags = flags
                /\ ~out.self.grid[p].isRevealed

\* a reveal has just lost the game on a board with a flagged bomb and a
\* revealed tile
C2_Witness ==
    /\ ProperBoard
    /\ state = LOSE
    /\ ret = Returned("reveal", <<>>, FALSE)
    /\ \E b \in bombs : grid[b].isFlagged
    /\ \E p \in Positions : grid[p].isRevealed
    /\ \A b \in bombs : ~grid[b].isRevealed

(***************************************************************************)
(* C3.  The state changes from ONGOING to WIN in exactly the calls that    *)
(* are a flag-placing toggleFlag after which the counter equals the bomb   *)
(* count and every bomb is flagged.  No reveal and no unflagging           *)
(* toggleFlag sets WIN, whatever the counter and the flags are afterwards. *)
(***************************************************************************)
C3_WinExactlyOnFlagPlacing ==
    CanCall /\ state = ONGOING =>
        \A p \in Positions :
            LET r == reveal(Self, p[1], p[2])
                t == toggleFlag(Self, p[1], p[2])
                placed ==
                    /\ t.ret.exc = "None"
                    /\ ~grid[p].isFlagged
                    /\ t.self.grid[p].isFlagged
            IN  /\ r.self.state # WIN
                /\ t.self.state = WIN <=>
                      /\ placed
                      /\ t.self.flags = difficulty.bombs
                      /\ \A b \in bombs : t.self.grid[b].isFlagged

\* a flag-placing call has just won a game with two bombs
C3_Witness ==
    /\ ProperBoard
    /\ state = WIN
    /\ ret = Returned("toggleFlag", <<>>, TRUE)
    /\ Cardinality(bombs) = 2
    /\ flags = 2
    /\ \A b \in bombs : grid[b].isFlagged

(***************************************************************************)
(* C4.  In state ONGOING, reveal on an unrevealed non-bomb tile t with     *)
(* bombsInNeighbor = 0 newly reveals exactly the reference region: t and   *)
(* every tile that was non-bomb, unflagged and unrevealed and is adjacent  *)
(* to a member of E, the least set that holds t and every blank,           *)
(* unflagged, unrevealed tile adjacent to one of its members.  Numbered    *)
(* tiles next to E are revealed and not expanded from.                     *)
(***************************************************************************)
RECURSIVE ExpansionSet(_)
ExpansionSet(E) ==
    LET more == { p \in Positions :
                    /\ grid[p].bombsInNeighbor = 0
                    /\ ~grid[p].isFlagged /\ ~grid[p].isRevealed
                    /\ \E q \in E : Adjacent(p, q) }
    IN  IF more \subseteq E THEN E ELSE ExpansionSet(E \cup more)

ReferenceRegion(t) ==
    LET E == ExpansionSet({t})
    IN  {t} \cup { p \in Positions :
                     /\ ~grid[p].isBomb /\ ~grid[p].isFlagged /\ ~grid[p].isRevealed
                     /\ \E q \in E : Adjacent(p, q) }

C4_FloodRevealsReferenceRegion ==
    CanCall /\ state = ONGOING =>
        \A t \in Positions :
            (~grid[t].isRevealed /\ ~grid[t].isBomb /\ grid[t].bombsInNeighbor = 0)
                => NewlyRevealed(reveal(Self, t[1], t[2])) = ReferenceRegion(t)

\* a flood has just revealed blank and numbered tiles and stopped short of
\* an unflagged, unrevealed numbered tile that touches no blank tile of it
C4_Witness ==
    /\ ProperBoard
    /\ state = ONGOING
    /\ ret.op = "reveal" /\ ret.exc = "None" /\ Len(ret.tiles) >= 3
    /\ \E i \in DOMAIN ret.tiles : grid[ret.tiles[i]].bombsInNeighbor > 0
    /\ \E i \in DOMAIN ret.tiles :
           i > 1 /\ grid[ret.tiles[i]].bombsInNeighbor = 0
    /\ \E p \in Positions :
           /\ ~grid[p].isBomb /\ ~grid[p].isRevealed /\ ~grid[p].isFlagged
           /\ \E i \in DOMAIN ret.tiles : Adjacent(p, ret.tiles[i])

(***************************************************************************)
(* C5.  The flood fill of reveal never reveals a flagged tile: for every   *)
(* reveal call, every tile other than the target that was flagged and      *)
(* unrevealed before the call is unrevealed and flagged after it, also     *)
(* when it is a blank tile inside the flooded area.                        *)
(***************************************************************************)
C5_FloodSkipsFlaggedTiles ==
    CanCall =>
        \A t \in Positions :
            LET out == reveal(Self, t[1], t[2])
            IN  \A p \in Positions \ {t} :
                    (grid[p].isFlagged /\ ~grid[p].isRevealed)
                        => ( /\ out.self.grid[p].isFlagged
                             /\ ~out.self.grid[p].isRevealed )

\* a flood has just passed a flagged blank tile: the flagged tile is still
\* unrevealed and touches a blank tile the call revealed
C5_Witness ==
    /\ ProperBoard
    /\ ret.op = "reveal" /\ ret.exc = "None" /\ Len(ret.tiles) >= 2
    /\ \E p \in Positions :
           /\ grid[p].isFlagged /\ ~grid[p].isRevealed /\ ~grid[p].isBomb
           /\ grid[p].bombsInNeighbor = 0
           /\ \E i \in DOMAIN ret.tiles :
                  /\ Adjacent(p, ret.tiles[i])
                  /\ grid[ret.tiles[i]].bombsInNeighbor = 0

(***************************************************************************)
(* C6.  In state ONGOING, reveal on a tile that is already revealed        *)
(* returns an empty sequence and changes nothing; so a reveal that left    *)
(* its tile revealed, repeated at once, returns an empty sequence and      *)
(* leaves the engine as the first call left it.                            *)
(***************************************************************************)
C6_RevealIdempotentOnRevealed ==
    CanCall /\ state = ONGOING =>
        \A p \in Positions :
            /\ grid[p].isRevealed =>
                  reveal(Self, p[1], p[2])
                      = Outcome(Self, Returned("reveal", <<>>, FALSE))
            /\ LET first == reveal(Self, p[1], p[2])
               IN  first.self.grid[p].isRevealed =>
                      reveal(first.self, p[1], p[2])
                          = Outcome(first.self, Returned("reveal", <<>>, FALSE))

\* a reveal on a revealed tile has just returned an empty sequence
C6_Witness ==
    /\ ProperBoard
    /\ state = ONGOING
    /\ ret = Returned("reveal", <<>>, FALSE)
    /\ ncalls >= 2
    /\ \E p \in Positions : grid[p].isRevealed

(***************************************************************************)
(* C7.  In state ONGOING, toggleFlag on a revealed tile raises and leaves  *)
(* the engine unchanged; on an unrevealed tile it flips that tile's        *)
(* isFlagged, returns the new value, changes the flag counter by +1 when   *)
(* the flag is placed and by -1 when it is removed, and changes no other   *)
(* tile and no other field of the tile.                                    *)
(***************************************************************************)
C7_ToggleFlag ==
    CanCall /\ state = ONGOING =>
        \A p \in Positions :
            LET out == toggleFlag(Self, p[1], p[2])
                new == ~grid[p].isFlagged
            IN  IF grid[p].isRevealed
                THEN FailedUnchanged(out)
                ELSE /\ out.ret = Returned("toggleFlag", <<>>, new)
                     /\ out.self.grid = [grid EXCEPT ![p].isFlagged = new]
                     /\ out.self.flags = flags + (IF new THEN 1 ELSE -1)

\* a flag has just been removed while another flag stays on the board
C7_Witness ==
    /\ ProperBoard
    /\ state = ONGOING
    /\ ret = Returned("toggleFlag", <<>>, FALSE)
    /\ flags = 1
    /\ Cardinality({ p \in Positions : grid[p].isFlagged }) = 1

(***************************************************************************)
(* C8.  Every reveal or toggleFlag call with a row outside [0, rows) or a  *)
(* col outside [0, cols), negative values included, raises and leaves the  *)
(* engine unchanged.  (Stated for the boards with 0 < bombs < rows*cols.)  *)
(***************************************************************************)
C8_CoordinatesValidated ==
    CanCall /\ ProperBoard =>
        \A rc \in Inputs :
            ~InBounds(rc[1], rc[2]) =>
                /\ FailedUnchanged(reveal(Self, rc[1], rc[2]))
                /\ FailedUnchanged(toggleFlag(Self, rc[1], rc[2]))

(***************************************************************************)
(* C9.  Construction with bombs >= rows*cols or bombs <= 0 raises, so no   *)
(* engine has an empty bomb set or one that covers every cell; for         *)
(* 0 < bombs < rows*cols the bomb set has exactly `bombs` distinct         *)
(* in-bounds coordinates.                                                  *)
(***************************************************************************)
C9_ConstructionRejectsImpossibleBoards ==
    LET cells == difficulty.rows * difficulty.cols
    IN  /\ (difficulty.bombs >= cells \/ difficulty.bombs <= 0)
               => ConstructionFailed
        /\ EngineExists => bombs # {} /\ bombs # Positions
        /\ (difficulty.bombs > 0 /\ difficulty.bombs < cells) =>
               /\ EngineExists
               /\ Cardinality(bombs) = difficulty.bombs
               /\ bombs \subseteq Positions

(***************************************************************************)
(* C10.  After construction, isBomb is true exactly for the coordinates    *)
(* of the bomb set, and bombsInNeighbor of every non-bomb tile is the      *)
(* number of bombs at Chebyshev distance 1 from it.                        *)
(***************************************************************************)
C10_GridMatchesBombSet ==
    (EngineExists /\ ncalls = 0) =>
        \A p \in Positions :
            /\ grid[p].isBomb <=> p \in bombs
            /\ p \notin bombs =>
                  grid[p].bombsInNeighbor
                      = Cardinality({ b \in bombs : Adjacent(p, b) })

\* a fresh board on which a corner tile touches two bombs, one of them
\* diagonally, and another tile touches exactly one
C10_Witness ==
    /\ ProperBoard /\ ncalls = 0
    /\ difficulty.rows >= 2 /\ difficulty.cols >= 2
    /\ ~grid[<<0, 0>>].isBomb /\ grid[<<0, 0>>].bombsInNeighbor = 2
    /\ <<1, 1>> \in bombs
    /\ \E p \in Positions : ~grid[p].isBomb /\ grid[p].bombsInNeighbor = 1

(***************************************************************************)
(* C11.  The sequence reveal returns holds exactly the tiles whose         *)
(* isRevealed the call changed from false to true: each of them once,      *)
(* none of them a bomb, and the target first when the sequence is not      *)
(* empty.                                                                  *)
(***************************************************************************)
ToSet(seq) == { seq[i] : i \in DOMAIN seq }

NoDuplicates(seq) == \A i, j \in DOMAIN seq : seq[i] = seq[j] => i = j

C11_ReturnedTilesAreTheRevealedOnes ==
    CanCall =>
        \A p \in Positions :
            LET out == reveal(Self, p[1], p[2])
                tiles == out.ret.tiles
            IN  /\ ToSet(tiles) = NewlyRevealed(out)
                /\ NoDuplicates(tiles)
                /\ \A i \in DOMAIN tiles : tiles[i] \notin bombs
                /\ tiles # <<>> => tiles[1] = p

\* a flood has just returned three tiles or more while a tile revealed by
\* an earlier call is not among them
C11_Witness ==
    /\ ProperBoard
    /\ ret.op = "reveal" /\ ret.exc = "None" /\ Len(ret.tiles) >= 3
    /\ grid[ret.tiles[1]].bombsInNeighbor = 0
    /\ \E p \in Positions : grid[p].isRevealed /\ p \notin ToSet(ret.tiles)

(***************************************************************************)
(* C12.  In every state with state = WIN the flagged tiles are exactly     *)
(* the bombs: every bomb is flagged and no flag is on a non-bomb tile.     *)
(***************************************************************************)
C12_WinMeansFlagsOnBombs ==
    state = WIN => { p \in Positions : grid[p].isFlagged } = bombs

\* a game with one bomb has just been won by flagging it, after a tile
\* had been revealed
C12_Witness ==
    /\ ProperBoard
    /\ state = WIN
    /\ ret = Returned("toggleFlag", <<>>, TRUE)
    /\ Cardinality(bombs) = 1
    /\ \E p \in Positions : grid[p].isRevealed

(***************************************************************************)
(* C13.  A flag blocks reveal: in every reachable state no tile is both    *)
(* flagged and revealed.  (Stated for the boards with                      *)
(* 0 < bombs < rows*cols.)                                                 *)
(***************************************************************************)
C13_NoTileFlaggedAndRevealed ==
    ProperBoard =>
        \A p \in Positions : ~(grid[p].isFlagged /\ grid[p].isRevealed)

(***************************************************************************)
(* C14.  In every reachable ONGOING state, a flag-placing toggleFlag call  *)
(* that leaves every bomb flagged and no unrevealed non-bomb tile flagged  *)
(* sets the state to WIN.  (Stated for the boards with                     *)
(* 0 < bombs < rows*cols.)                                                 *)
(***************************************************************************)
C14_FullCoverageWins ==
    CanCall /\ ProperBoard /\ state = ONGOING =>
        \A p \in Positions :
            LET out == toggleFlag(Self, p[1], p[2])
                g == out.self.grid
            IN  ( /\ out.ret.exc = "None"
                  /\ ~grid[p].isFlagged /\ g[p].isFlagged
                  /\ \A b \in bombs : g[b].isFlagged
                  /\ \A q \in Positions \ bombs :
                         ~g[q].isRevealed => ~g[q].isFlagged )
                    => out.self.state = WIN

(***************************************************************************)
(* C15.  The flood fill of reveal terminates: in a call no tile is         *)
(* appended to the queue twice and no tile is marked revealed twice, so    *)
(* the loop runs once per queued tile, at most rows*cols times, and ends   *)
(* with the queue empty.                                                   *)
(***************************************************************************)
C15_FloodVisitsEachTileOnce ==
    CanCall /\ state = ONGOING =>
        \A t \in Positions :
            (~grid[t].isBomb /\ ~grid[t].isRevealed /\ grid[t].bombsInNeighbor = 0)
                => LET f == Flooded(Self, t)
                   IN  /\ NoDuplicates(f.pushed)
                       /\ NoDuplicates(f.changed)
                       /\ f.popped = Len(f.pushed)
                       /\ f.popped <= difficulty.rows * difficulty.cols
                       /\ reveal(Self, t[1], t[2]).ret.tiles = f.changed

\* a flood has just run through three blank tiles or more, each of them
\* queued, next to a numbered tile
C15_Witness ==
    /\ ProperBoard
    /\ ret.op = "reveal" /\ ret.exc = "None"
    /\ Cardinality({ i \in DOMAIN ret.tiles :
                       grid[ret.tiles[i]].bombsInNeighbor = 0 }) >= 3
    /\ \E i \in DOMAIN ret.tiles : grid[ret.tiles[i]].bombsInNeighbor > 0

(***************************************************************************)
(* C16.  In state ONGOING, reveal on an unrevealed non-bomb tile with      *)
(* bombsInNeighbor > 0 returns that one tile, marks it revealed and        *)
(* changes nothing else, whatever its neighbours are: no flood starts      *)
(* from a numbered tile.                                                   *)
(***************************************************************************)
C16_NumberedTileRevealsAlone ==
    CanCall /\ state = ONGOING =>
        \A t \in Positions :
            (~grid[t].isBomb /\ ~grid[t].isRevealed /\ grid[t].bombsInNeighbor > 0)
                => reveal(Self, t[1], t[2])
                     = Outcome([Self EXCEPT !.grid[t].isRevealed = TRUE],
                               Returned("reveal", <<t>>, FALSE))

\* a numbered tile has just been revealed alone, next to a blank tile that
\* is neither flagged nor revealed
C16_Witness ==
    /\ ProperBoard
    /\ state = ONGOING
    /\ ret.op = "reveal" /\ ret.exc = "None" /\ Len(ret.tiles) = 1
    /\ grid[ret.tiles[1]].bombsInNeighbor > 0
    /\ \E q \in Positions :
           /\ Adjacent(q, ret.tiles[1])
           /\ ~grid[q].isBomb /\ grid[q].bombsInNeighbor = 0
           /\ ~grid[q].isFlagged /\ ~grid[q].isRevealed

(***************************************************************************)
(* C17.  Over any sequence of reveal and toggleFlag calls a revealed tile  *)
(* stays revealed, and the bomb set, every tile's isBomb and every tile's  *)
(* bombsInNeighbor keep the values they have right after construction:     *)
(* no step of the engine changes any of them.                              *)
(***************************************************************************)
C17_RevealMonotonicBoardFixed ==
    [][ /\ bombs' = bombs
        /\ difficulty' = difficulty
        /\ \A p \in Positions :
               /\ grid[p].isRevealed => grid'[p].isRevealed
               /\ grid'[p].isBomb = grid[p].isBomb
               /\ grid'[p].bombsInNeighbor = grid[p].bombsInNeighbor ]_vars

\* a flag has been placed or removed after a flood reveal: revealed tiles,
\* among them numbered ones, have lived through a step of each kind
C17_Witness ==
    /\ ProperBoard
    /\ ncalls >= 2
    /\ ret.op = "toggleFlag" /\ ret.exc = "None"
    /\ Cardinality({ p \in Positions : grid[p].isRevealed }) >= 2
    /\ \E p \in Positions : grid[p].isRevealed /\ grid[p].bombsInNeighbor > 0
    /\ \E p \in Positions : grid[p].isFlagged /\ grid[p].bombsInNeighbor > 0

(***************************************************************************)
(* C18.  In every reachable state the flag counter equals the number of    *)
(* tiles whose isFlagged is true, and so lies in 0 .. rows*cols, after     *)
(* any interleaving of reveal and toggleFlag calls, failed ones included.  *)
(***************************************************************************)
C18_FlagCounterCountsFlags ==
    EngineExists =>
        /\ flags = Cardinality({ p \in Positions : grid[p].isFlagged })
        /\ flags >= 0
        /\ flags <= difficulty.rows * difficulty.cols

\* a call has just failed on a board holding a flag, where a flagged tile
\* has been revealed by an earlier call
C18_Witness ==
    /\ ProperBoard
    /\ state = ONGOING
    /\ ret.exc = "IndexError"
    /\ flags = 1
    /\ \E p \in Positions : grid[p].isFlagged /\ grid[p].isRevealed

(***************************************************************************)
(* C19.  In every reachable state no bomb tile has isRevealed true: a      *)
(* direct reveal of a bomb only sets LOSE and the flood fill never marks   *)
(* a bomb, so every revealed tile is a non-bomb tile.                      *)
(***************************************************************************)
C19_NoBombRevealed ==
    EngineExists =>
        /\ \A b \in bombs : ~grid[b].isRevealed
        /\ \A p \in Positions : grid[p].isRevealed => ~grid[p].isBomb

\* the game has been lost by a reveal on a bomb after a flood opened tiles
\* up to the numbered tiles around the bombs
C19_Witness ==
    /\ ProperBoard
    /\ state = LOSE
    /\ ret = Returned("reveal", <<>>, FALSE)
    /\ Cardinality({ p \in Positions : grid[p].isRevealed }) >= 2
    /\ \E p \in Positions : grid[p].isRevealed /\ grid[p].bombsInNeighbor > 0

(***************************************************************************)
(* C20.  As claimed: in every reachable state every in-bounds 8-neighbour  *)
(* of a revealed tile with bombsInNeighbor = 0 is itself revealed or       *)
(* flagged.  This fails: a flag that a flood stopped at can be removed     *)
(* again (toggleFlag on an unrevealed tile, lines 92-97), which leaves an  *)
(* untouched, unflagged tile next to the opened blank area.                *)
(***************************************************************************)
\* every neighbour of a revealed blank tile of g is revealed or flagged
Sealed(g) ==
    \A p \in Positions :
        (g[p].isRevealed /\ g[p].bombsInNeighbor = 0)
            => \A q \in Positions :
                   Adjacent(q, p) => (g[q].isRevealed \/ g[q].isFlagged)

C20_OpenedAreaAlwaysSealed == ProperBoard => Sealed(grid)

(***************************************************************************)
(* C20, amended.  Right after a reveal call every in-bounds 8-neighbour of *)
(* every blank tile that call revealed is revealed or flagged; and every   *)
(* step other than a toggleFlag that removes a flag keeps the property     *)
(* "every neighbour of a revealed blank tile is revealed or flagged" once  *)
(* it holds.  Removing a flag is the only step that can break it.          *)
(***************************************************************************)
C20_OpenedAreaSealedUntilUnflag ==
    [][ /\ (ret'.op = "reveal" /\ ret'.exc = "None")
            => \A i \in DOMAIN ret'.tiles :
                   grid'[ret'.tiles[i]].bombsInNeighbor = 0
                       => \A q \in Positions :
                              Adjacent(q, ret'.tiles[i])
                                  => (grid'[q].isRevealed \/ grid'[q].isFlagged)
        /\ (Sealed(grid) /\ ret' # Returned("toggleFlag", <<>>, FALSE))
            => Sealed(grid') ]_vars

\* a flag has just been placed on a board where an earlier flood stopped at
\* a flagged tile, which still bounds the opened blank area
C20_Witness ==
    /\ ProperBoard
    /\ ret = Returned("toggleFlag", <<>>, TRUE)
    /\ Sealed(grid)
    /\ flags = 2
    /\ \E p, q \in Positions :
           /\ grid[p].isRevealed /\ grid[p].bombsInNeighbor = 0
           /\ Adjacent(q, p)
           /\ grid[q].isFlagged /\ ~grid[q].isRevealed

=============================================================================
